---- MODULE Spec2Model ----
(***************************************************************************)
(* Tree inventory application: the carbon model (carbonCalculator), the    *)
(* ecosystem service model (ecosystemServiceCalculator) and the record     *)
(* assembler of the application component (App.handleAddTree).             *)
(*                                                                         *)
(* Numbers.  A JavaScript number is modelled as an exact signed decimal:   *)
(* a sequence of Limbs limbs in base 10^4, least significant first, of     *)
(* which the first FracLimbs are fractional.  The limbs but the last are   *)
(* in 0..Base-1 and the last one carries the sign, so a value has one      *)
(* representation and = is numeric equality.  +, - and * are exact (the    *)
(* products of the program have at most 12 decimals); Math.pow(x, 0.976),  *)
(* Math.log and Math.exp are tabulated to 4 decimals at the arguments the  *)
(* inputs of the model reach.  NaN is the empty sequence.                  *)
(***************************************************************************)
EXTENDS Integers, Sequences, FiniteSets, TLC

\* ------------------------------------------------------------ bounds
FracLimbs == 4
IntLimbs == 3
MaxTrees == 2
MaxClock == 1
StorageQuota == 2

\* ------------------------------------------------------------ numbers
Limbs == FracLimbs + IntLimbs
Base == 10^4

\* carries propagated upwards; the last limb keeps the sign
Normalize(v) ==
  LET n == Len(v)
      carry[i \in 0..n] ==
        IF i = 0 THEN 0 ELSE (v[i] + carry[i - 1]) \div Base
  IN  SubSeq([i \in 1..n |->
                 IF i = n THEN v[i] + carry[i - 1]
                 ELSE (v[i] + carry[i - 1]) % Base], 1, n)

NaN == <<>>
IsNaN(x) == x = NaN

\* the decimal n / 10^s
D(n, s) ==
  LET q == (s + 3) \div 4
  IN  Normalize([i \in 1..Limbs |->
                   IF i = FracLimbs - q + 1 THEN n * 10^(4 * q - s) ELSE 0])

Zero == D(0, 0)

Add(a, b) ==
  IF IsNaN(a) \/ IsNaN(b) THEN NaN
  ELSE Normalize([i \in 1..Limbs |-> a[i] + b[i]])

Mul(a, b) ==
  IF IsNaN(a) \/ IsNaN(b) THEN NaN
  ELSE LET col(k) ==
             LET sum[i \in 0..Limbs] ==
                   IF i = 0 THEN 0
                   ELSE sum[i - 1]
                        + (IF k + 1 - i >= 1 /\ k + 1 - i <= Limbs
                           THEN a[i] * b[k + 1 - i] ELSE 0)
             IN  sum[Limbs]
           d == Normalize([k \in 1..(2 * Limbs - 1) |-> col(k)])
           top[j \in (FracLimbs + Limbs)..(2 * Limbs - 1)] ==
             IF j = 2 * Limbs - 1 THEN d[j] ELSE d[j] + Base * top[j + 1]
       IN  Normalize([i \in 1..Limbs |->
                        IF i < Limbs THEN d[FracLimbs + i]
                        ELSE top[FracLimbs + Limbs]])

\* x < 0, x <= 0, x > 0, x >= 0 as JavaScript compares: false on NaN
Lt0(x) == ~IsNaN(x) /\ x[Limbs] < 0
Leq0(x) == ~IsNaN(x) /\ (x[Limbs] < 0 \/ x = Zero)
Gt0(x) == ~IsNaN(x) /\ ~(x[Limbs] < 0) /\ x # Zero
Geq0(x) == ~IsNaN(x) /\ ~(x[Limbs] < 0)

\* ------------------------------------------------ library functions
\* <<x, Math.pow(x, 0.976)>>, both in units of 10^-4
PowTable ==
  { <<3, 4>>, <<6, 7>>, <<30, 34>>, <<120, 133>>,
    <<150, 166>>, <<375, 406>>, <<600, 642>>, <<750, 798>>,
    <<1500, 1570>>, <<3000, 3088>>, <<3750, 3839>>, <<6000, 6074>>,
    <<12000, 11948>>, <<18750, 18469>>, <<37500, 36329>>, <<46875, 45169>>,
    <<75000, 71459>>, <<93750, 88847>>, <<150000, 140561>>, <<937500, 840706>>,
    <<1500000, 1330041>>, <<7500000, 6398229>>, <<30000000, 24755423>>, <<375000000, 291242344>>,
    <<750000000, 572874898>> }

\* <<x in units of 10^-1, Math.log(x) in units of 10^-4>>
LogTable ==
  { <<1, -23026>>, <<5, -6931>>, <<10, 0>>, <<25, 9163>>, <<500, 39120>> }

\* <<x in units of 10^-5, Math.exp(x) in units of 10^-4>>
ExpTable ==
  { <<-634468, 18>>, <<-344758, 318>>, <<-220000, 1108>>, <<-55066, 5766>>,
    <<484160, 1266719>> }

PowValues == { <<D(e[1], 4), D(e[2], 4)>> : e \in PowTable }
LogValues == { <<D(e[1], 1), D(e[2], 4)>> : e \in LogTable }
ExpValues == { <<D(e[1], 5), D(e[2], 4)>> : e \in ExpTable }

Lookup(table, x) == (CHOOSE e \in table : e[1] = x)[2]

\* Math.pow(x, y) for the two exponents the program uses.  A negative base
\* with the exponent 0.976 is NaN, and 0 to a positive power is 0.
Math_pow(x, y) ==
  IF IsNaN(x) THEN NaN
  ELSE IF y = D(2, 0) THEN Mul(x, x)
  ELSE IF Lt0(x) THEN NaN
  ELSE IF x = Zero THEN Zero
  ELSE Lookup(PowValues, x)

\* Math.log(x); the program calls it with x > 0 only.  Math.log(0) is
\* -Infinity and the logarithm of a negative number is NaN: both are the
\* non-finite value NaN here.
Math_log(x) ==
  IF IsNaN(x) \/ Leq0(x) THEN NaN ELSE Lookup(LogValues, x)

Math_exp(x) ==
  IF IsNaN(x) THEN NaN ELSE Lookup(ExpValues, x)

\* ------------------------------------------------------ carbon model
WOOD_DENSITY == D(6, 1)
CARBON_CONVERSION_FACTOR == D(47, 2)
CO2_CONVERSION_FACTOR == D(367, 2)

\* the degenerate case of the carbon model, with && written for ||
degenerateCarbon_And(dbh, height) == Leq0(dbh) /\ Leq0(height)

\* the degenerate case of the carbon model, with the height left unchecked
degenerateCarbon_DbhOnly(dbh, height) == Leq0(dbh)

\* the degenerate case of the carbon model
degenerateCarbon(dbh, height) == Leq0(dbh) \/ Leq0(height)

\* above-ground biomass in kg
biomassOf(dbh, height) ==
  Mul(D(673, 4),
      Math_pow(Mul(Mul(WOOD_DENSITY, Math_pow(dbh, D(2, 0))), height),
               D(976, 3)))

\* the CO2 taken from the biomass, without the carbon fraction
co2Of_FromBiomass(biomass, carbonStored) == Mul(biomass, CO2_CONVERSION_FACTOR)

co2Of(biomass, carbonStored) == Mul(carbonStored, CO2_CONVERSION_FACTOR)

calculateCarbonMetrics(dbh, height) ==
  IF degenerateCarbon(dbh, height)
  THEN [biomass |-> Zero, carbonStored |-> Zero, co2Sequestrated |-> Zero]
  ELSE LET biomass == biomassOf(dbh, height)
           carbonStored == Mul(biomass, CARBON_CONVERSION_FACTOR)
           co2Sequestrated == co2Of(biomass, carbonStored)
       IN  [biomass |-> biomass, carbonStored |-> carbonStored,
            co2Sequestrated |-> co2Sequestrated]

\* ------------------------------------------- ecosystem service model
USD_TO_IDR_RATE == D(16000, 0)
SOCIAL_COST_OF_CARBON_PER_KG_CO2_IDR == Mul(D(5, 2), USD_TO_IDR_RATE)
STORMWATER_MANAGEMENT_COST_PER_LITER_IDR == Mul(D(2, 3), USD_TO_IDR_RATE)
AIR_POLLUTION_HEALTH_SAVINGS_PER_GRAM_IDR == Mul(D(8, 2), USD_TO_IDR_RATE)
LEAF_AREA_PARAM_A == D(0 - 22, 1)
LEAF_AREA_PARAM_B == D(18, 1)
RAINFALL_INTERCEPTION_LITERS_PER_M2_LEAF_AREA == D(180, 0)
POLLUTION_REMOVAL_GRAMS_PER_M2_LEAF_AREA == D(15, 1)

ProximityToBuilding == {"None", "Near", "Far"}

\* the degenerate case of the service model, with < written for <=
degenerateServices_Strict(dbh) == Lt0(dbh)

\* the degenerate case of the service model
degenerateServices(dbh) == Leq0(dbh)

leafArea(dbh) ==
  Math_exp(Add(LEAF_AREA_PARAM_A, Mul(LEAF_AREA_PARAM_B, Math_log(dbh))))

\* the energy savings given to every tree that has a building, near or far
energySavingsIDR_NotNone(dbh, proximityToBuilding) ==
  IF proximityToBuilding # "None"
  THEN Mul(Add(D(10, 0), Mul(dbh, D(25, 2))), USD_TO_IDR_RATE)
  ELSE Zero

\* the energy savings left in USD
energySavingsIDR_USD(dbh, proximityToBuilding) ==
  IF proximityToBuilding = "Near"
  THEN Add(D(10, 0), Mul(dbh, D(25, 2)))
  ELSE Zero

energySavingsIDR(dbh, proximityToBuilding) ==
  IF proximityToBuilding = "Near"
  THEN Mul(Add(D(10, 0), Mul(dbh, D(25, 2))), USD_TO_IDR_RATE)
  ELSE Zero

\* the carbon value priced from a tree as high as its dbh
valueFromCarbon_HeightIsDbh(dbh) ==
  Mul(calculateCarbonMetrics(dbh, dbh).co2Sequestrated,
      SOCIAL_COST_OF_CARBON_PER_KG_CO2_IDR)

valueFromCarbon(dbh) ==
  Mul(calculateCarbonMetrics(dbh, Mul(dbh, D(5, 1))).co2Sequestrated,
      SOCIAL_COST_OF_CARBON_PER_KG_CO2_IDR)

valueFromStormwater(stormwaterInterceptedLiters) ==
  Mul(stormwaterInterceptedLiters, STORMWATER_MANAGEMENT_COST_PER_LITER_IDR)

\* the air-quality value priced at the stormwater rate
valueFromAirQuality_StormwaterRate(airPollutionRemovedGrams) ==
  Mul(airPollutionRemovedGrams, STORMWATER_MANAGEMENT_COST_PER_LITER_IDR)

valueFromAirQuality(airPollutionRemovedGrams) ==
  Mul(airPollutionRemovedGrams, AIR_POLLUTION_HEALTH_SAVINGS_PER_GRAM_IDR)

\* the total without the energy savings
totalValue_NoEnergy(carbon, stormwater, airQuality, energy) ==
  Add(Add(carbon, stormwater), airQuality)

totalValue(carbon, stormwater, airQuality, energy) ==
  Add(Add(Add(carbon, stormwater), airQuality), energy)

calculateEcosystemServices(dbh, proximityToBuilding) ==
  IF degenerateServices(dbh)
  THEN [stormwaterInterceptedLiters |-> Zero,
        airPollutionRemovedGrams |-> Zero,
        energySavingsIDR |-> Zero,
        annualMonetaryValue |->
          [total |-> Zero, carbon |-> Zero, stormwater |-> Zero,
           airQuality |-> Zero, energy |-> Zero]]
  ELSE LET stormwaterInterceptedLiters ==
             Mul(leafArea(dbh), RAINFALL_INTERCEPTION_LITERS_PER_M2_LEAF_AREA)
           airPollutionRemovedGrams ==
             Mul(leafArea(dbh), POLLUTION_REMOVAL_GRAMS_PER_M2_LEAF_AREA)
           energy == energySavingsIDR(dbh, proximityToBuilding)
           carbon == valueFromCarbon(dbh)
           stormwater == valueFromStormwater(stormwaterInterceptedLiters)
           airQuality == valueFromAirQuality(airPollutionRemovedGrams)
       IN  [stormwaterInterceptedLiters |-> stormwaterInterceptedLiters,
            airPollutionRemovedGrams |-> airPollutionRemovedGrams,
            energySavingsIDR |-> energy,
            annualMonetaryValue |->
              [total |-> totalValue(carbon, stormwater, airQuality, energy),
               carbon |-> carbon,
               stormwater |-> stormwater,
               airQuality |-> airQuality,
               energy |-> energy]]

\* --------------------------------------------------------------- state
VARIABLES
  argDbh, argHeight, argProximity,  \* the arguments of a calculator call
  carbonOut, servicesOut,           \* its results: <<>> before the call
  trees,                            \* App: the collection, newest first
  view,                             \* App: the view shown
  now,                              \* the clock Date.now() reads
  sessionStart,                     \* history: the collection the session loaded
  added,                            \* history: the records added, oldest first
  treeInventoryData,                \* localStorage: <<>> or <<the JSON text stored>>
  dashboardTrees,                   \* Dashboard: the trees it is rendered with
  stats,                            \* Dashboard: the summary of that render
  isAnalyzing,                      \* App: an image analysis is shown as running
  appError,                         \* App: its error message, "null" if none
  analyses,                         \* the calls of handleImageAnalysis so far
  savedTreesJSON,                   \* session start: what the storage holds
  loadOutcome,                      \* session start: "pending", "loaded", "threw"
  form,                             \* DataCollectionForm: the state of its fields
  onAddTreeArg                      \* the measurement handed to onAddTree: <<>> if none

calcVars == <<argDbh, argHeight, argProximity, carbonOut, servicesOut>>
appVars == <<trees, view, now, sessionStart, added, treeInventoryData>>
formVars == <<form, onAddTreeArg>>
dashVars == <<dashboardTrees, stats>>
analysisVars == <<isAnalyzing, appError, analyses>>
loadVars == <<savedTreesJSON, loadOutcome>>
vars == <<calcVars, appVars, formVars, dashVars, analysisVars, loadVars>>

\* ------------------------------------------------- calculator calls
\* inputs of the calculators, in tenths (the form's inputs have step 0.1)
CalcDbh == {0 - 10, 0 - 1, 0, 1, 5, 10, 25, 500}
CalcHeight == {0 - 10, 0, 1, 5, 20, 250}

CalcIdle ==
  /\ argDbh = Zero
  /\ argHeight = Zero
  /\ argProximity = "None"
  /\ carbonOut = <<>>
  /\ servicesOut = <<>>

AppIdle ==
  /\ trees = <<>>
  /\ view = "form"
  /\ now = 0
  /\ sessionStart = <<>>
  /\ added = <<>>
  /\ treeInventoryData = <<>>

\* the fields of the form when it is mounted and after resetForm; null is
\* the string "null"
initialForm ==
  [species |-> "", dbh |-> <<>>, height |-> <<>>, condition |-> "Healthy",
   proximityToBuilding |-> "None", notes |-> "", photo |-> "null",
   latitude |-> <<>>, longitude |-> <<>>, error |-> "null"]

FormIdle ==
  /\ form = initialForm
  /\ onAddTreeArg = <<>>

\* the dashboard is not rendered
DashIdle ==
  /\ dashboardTrees = <<>>
  /\ stats = <<>>

\* no image analysis was started
AnalysisIdle ==
  /\ isAnalyzing = FALSE
  /\ appError = "null"
  /\ analyses = <<>>

\* the text the storage can hold under 'treeInventoryData' when a session
\* starts, by what JSON.parse makes of it: no item; the empty text; the text
\* of an array (elements: the texts of its elements); the text of another
\* JSON value; a text that is not JSON; denied: the browser refuses access
\* to the storage, and every use of localStorage throws
StoredText(kind, elements) == [kind |-> kind, elements |-> elements]
NoItem == StoredText("absent", <<>>)

\* the session is running: the collection was loaded
LoadIdle ==
  /\ savedTreesJSON = NoItem
  /\ loadOutcome = "loaded"

CalcInit ==
  /\ argDbh \in {D(k, 1) : k \in CalcDbh}
  /\ argHeight \in {D(k, 1) : k \in CalcHeight}
  /\ argProximity \in ProximityToBuilding
  /\ carbonOut = <<>>
  /\ servicesOut = <<>>
  /\ DashIdle
  /\ AnalysisIdle
  /\ LoadIdle
  /\ AppIdle
  /\ FormIdle

CallCarbon ==
  /\ carbonOut = <<>>
  /\ carbonOut' = <<calculateCarbonMetrics(argDbh, argHeight)>>
  /\ UNCHANGED <<argDbh, argHeight, argProximity, servicesOut, appVars, formVars,
               dashVars, analysisVars, loadVars>>

CallServices ==
  /\ servicesOut = <<>>
  /\ servicesOut' = <<calculateEcosystemServices(argDbh, argProximity)>>
  /\ UNCHANGED <<argDbh, argHeight, argProximity, carbonOut, appVars, formVars,
               dashVars, analysisVars, loadVars>>

CalcNext == CallCarbon \/ CallServices

CalcSpec == CalcInit /\ [][CalcNext]_vars

\* ------------------------------------------------------ application
TreeCondition == {"Healthy", "Damaged", "Dead"}
AppView == {"form", "map", "dashboard"}

\* the measurements the form hands to onAddTree, dbh and height in tenths
AppDbh == {0 - 10, 25}
AppHeight == {0 - 10, 20}
AppCondition == {"Healthy", "Dead"}
AppProximity == {"Near", "Far"}

Measurements ==
  [species : {"Jati"},
   dbh : {D(k, 1) : k \in AppDbh},
   height : {D(k, 1) : k \in AppHeight},
   condition : AppCondition,
   proximityToBuilding : AppProximity,
   notes : {""},
   photo : {"data:image/jpeg"},
   latitude : {D(340522, 4)},
   longitude : {D(0 - 1182437, 4)},
   inventoryDate : {"date"}]

\* the record built with the height the service model assumes, dbh * 0.5
newTree_AssumedHeight(newTreeData, id) ==
  [id |-> id,
   carbon |-> calculateCarbonMetrics(newTreeData.dbh,
                                     Mul(newTreeData.dbh, D(5, 1))),
   ecosystemServices |->
     calculateEcosystemServices(newTreeData.dbh,
                                newTreeData.proximityToBuilding)] @@ newTreeData

\* the record handleAddTree builds from newTreeData at clock reading id
newTree(newTreeData, id) ==
  [id |-> id,
   carbon |-> calculateCarbonMetrics(newTreeData.dbh, newTreeData.height),
   ecosystemServices |->
     calculateEcosystemServices(newTreeData.dbh,
                                newTreeData.proximityToBuilding)]
  @@ newTreeData

\* newTree tabulated over the inputs of the model (@@ <<>> makes the table a
\* value that is computed once)
NewTrees == [m \in Measurements, t \in 0..MaxClock |-> newTree(m, t)] @@ <<>>

\* the collection a session starts with: the stored array or initialTrees.
\* A stored record was built in an earlier session, before the clock readings
\* of this one.
SessionStartCollections ==
  { <<>>,
    <<newTree(CHOOSE m \in Measurements :
                /\ m.dbh = D(25, 1) /\ m.height = D(20, 1)
                /\ m.condition = "Healthy" /\ m.proximityToBuilding = "Near",
              0 - 1)>> }

\* ---- persistence
\* JSON.stringify writes a number that is not finite as null
JsonNull == <<"null">>
stringifyNumber(x) == IF IsNaN(x) THEN JsonNull ELSE x

stringifyTree(tree) ==
  [tree EXCEPT
     !.dbh = stringifyNumber(@),
     !.height = stringifyNumber(@),
     !.latitude = stringifyNumber(@),
     !.longitude = stringifyNumber(@),
     !.carbon = [biomass |-> stringifyNumber(@.biomass),
                 carbonStored |-> stringifyNumber(@.carbonStored),
                 co2Sequestrated |-> stringifyNumber(@.co2Sequestrated)],
     !.ecosystemServices =
       [stormwaterInterceptedLiters |->
          stringifyNumber(@.stormwaterInterceptedLiters),
        airPollutionRemovedGrams |->
          stringifyNumber(@.airPollutionRemovedGrams),
        energySavingsIDR |-> stringifyNumber(@.energySavingsIDR),
        annualMonetaryValue |->
          [total |-> stringifyNumber(@.annualMonetaryValue.total),
           carbon |-> stringifyNumber(@.annualMonetaryValue.carbon),
           stormwater |-> stringifyNumber(@.annualMonetaryValue.stormwater),
           airQuality |-> stringifyNumber(@.annualMonetaryValue.airQuality),
           energy |-> stringifyNumber(@.annualMonetaryValue.energy)]]]

\* the JSON text of a collection: the texts of its records in their order
JSON_stringify(collection) ==
  [i \in 1..Len(collection) |-> stringifyTree(collection[i])]

\* JSON.parse of such a text: every value is read back as it was written,
\* null as null
JSON_parse(text) == [i \in 1..Len(text) |-> text[i]]

\* localStorage.setItem throws when the text does not fit, as a collection
\* of more than StorageQuota records does not
setItemThrows(text) == Len(text) > StorageQuota

\* the effect that saves the collection after every render that changed it:
\* the item afterwards
saveEffect(item, collection) ==
  IF setItemThrows(JSON_stringify(collection)) THEN item
  ELSE <<JSON_stringify(collection)>>

\* the trees initializer: the stored array if there is one
loadTrees(item, otherwise) ==
  IF item # <<>> THEN JSON_parse(item[1]) ELSE otherwise

Init ==
  /\ CalcIdle
  /\ FormIdle
  /\ DashIdle
  /\ AnalysisIdle
  /\ LoadIdle
  /\ trees \in SessionStartCollections
  /\ sessionStart = trees
  /\ view = "form"
  /\ now = 0
  /\ added = <<>>
  /\ treeInventoryData = saveEffect(<<>>, trees)

\* handleAddTree spreading the collection its closure captured at mount
\* instead of the one the updater is given
handleAddTree_StaleClosure(newTreeData) ==
  /\ Len(added) < MaxTrees
  /\ trees' = <<NewTrees[newTreeData, now]>> \o sessionStart
  /\ view' = "dashboard"
  /\ added' = Append(added, NewTrees[newTreeData, now])
  /\ treeInventoryData' = saveEffect(treeInventoryData, trees')
  /\ UNCHANGED <<now, sessionStart, calcVars, formVars, dashVars, analysisVars,
               loadVars>>

\* handleAddTree putting the new record behind the collection
handleAddTree_Append(newTreeData) ==
  /\ Len(added) < MaxTrees
  /\ trees' = trees \o <<NewTrees[newTreeData, now]>>
  /\ view' = "dashboard"
  /\ added' = Append(added, NewTrees[newTreeData, now])
  /\ treeInventoryData' = saveEffect(treeInventoryData, trees')
  /\ UNCHANGED <<now, sessionStart, calcVars, formVars, dashVars, analysisVars,
               loadVars>>

\* handleAddTree and, after the render it causes, the effect that saves the
\* collection
handleAddTree(newTreeData) ==
  /\ Len(added) < MaxTrees
  /\ trees' = <<NewTrees[newTreeData, now]>> \o trees
  /\ view' = "dashboard"
  /\ added' = Append(added, NewTrees[newTreeData, now])
  /\ treeInventoryData' = saveEffect(treeInventoryData, trees')
  /\ UNCHANGED <<now, sessionStart, calcVars, formVars, dashVars, analysisVars,
               loadVars>>

AddTree == \E m \in Measurements : handleAddTree(m)

setView(targetView) ==
  /\ view' = targetView
  /\ UNCHANGED <<trees, now, sessionStart, added, treeInventoryData, calcVars,
               formVars, dashVars, analysisVars, loadVars>>

Navigate == \E v \in AppView : setView(v)

Tick ==
  /\ now < MaxClock
  /\ now' = now + 1
  /\ UNCHANGED <<trees, view, sessionStart, added, treeInventoryData, calcVars,
               formVars, dashVars, analysisVars, loadVars>>

Next == AddTree \/ Navigate \/ Tick

Spec == Init /\ [][Next]_vars

\* ------------------------------------------------------------ form
\* A string of a numeric input field is the sequence of its characters.
Digits == <<"0", "1", "2", "3", "4", "5", "6", "7", "8", "9">>
IsDigit(c) == \E d \in 1..10 : Digits[d] = c
DigitValue(c) == (CHOOSE d \in 1..10 : Digits[d] = c) - 1

\* parseFloat(str) for a string without leading blanks and without an
\* exponent: the longest prefix [+-] digits [. digits], NaN if it has no digit
parseFloat(str) ==
  LET len == Len(str)
      signed == len > 0 /\ str[1] \in {"-", "+"}
      first == IF signed THEN 2 ELSE 1
      \* the last position of the run of digits that starts at position p
      runEnd(p) ==
        CHOOSE q \in (p - 1)..len :
          /\ \A r \in p..q : IsDigit(str[r])
          /\ q = len \/ ~IsDigit(str[q + 1])
      intEnd == runEnd(first)
      dotted == intEnd < len /\ str[intEnd + 1] = "."
      fracEnd == IF dotted THEN runEnd(intEnd + 2) ELSE intEnd
      intValue[p \in (first - 1)..intEnd] ==
        IF p = first - 1 THEN Zero
        ELSE Add(Mul(intValue[p - 1], D(10, 0)), D(DigitValue(str[p]), 0))
      fracValue[p \in (intEnd + 1)..fracEnd] ==
        IF p = intEnd + 1 THEN Zero
        ELSE Add(fracValue[p - 1], D(DigitValue(str[p]), p - intEnd - 1))
      magnitude ==
        IF dotted THEN Add(intValue[intEnd], fracValue[fracEnd])
        ELSE intValue[intEnd]
  IN  IF intEnd = first - 1 /\ fracEnd <= intEnd + 1 THEN NaN
      ELSE IF signed /\ str[1] = "-" THEN Mul(D(0 - 1, 0), magnitude)
      ELSE magnitude

\* what the user types or selects, and what the device reports
FormSpecies == {"", "Jati"}
FormDbh == {<<>>, <<"0">>, <<"-", "5">>, <<"2", ".", "5">>}
FormHeight == {<<>>, <<"2">>}
FormLatitude == {<<>>, <<"9", "9", "9">>, <<"-", "6", ".", "2", "0", "0", "0", "0", "0">>}
FormLongitude == {<<>>, <<"1", "0", "6", ".", "8", "0", "0", "0", "0", "0">>}
FormCondition == {"Healthy", "Dead"}
FormProximity == {"None", "Near"}
DeviceLatitude == <<"-", "6", ".", "2", "0", "0", "0", "0", "0">>
DeviceLongitude == <<"1", "0", "6", ".", "8", "0", "0", "0", "0", "0">>

setSpecies(value) ==
  /\ form' = [form EXCEPT !.species = value]
  /\ UNCHANGED <<onAddTreeArg, calcVars, appVars, dashVars, analysisVars, loadVars>>
setDbh(value) ==
  /\ form' = [form EXCEPT !.dbh = value]
  /\ UNCHANGED <<onAddTreeArg, calcVars, appVars, dashVars, analysisVars, loadVars>>
setHeight(value) ==
  /\ form' = [form EXCEPT !.height = value]
  /\ UNCHANGED <<onAddTreeArg, calcVars, appVars, dashVars, analysisVars, loadVars>>
setCondition(value) ==
  /\ form' = [form EXCEPT !.condition = value]
  /\ UNCHANGED <<onAddTreeArg, calcVars, appVars, dashVars, analysisVars, loadVars>>
setProximityToBuilding(value) ==
  /\ form' = [form EXCEPT !.proximityToBuilding = value]
  /\ UNCHANGED <<onAddTreeArg, calcVars, appVars, dashVars, analysisVars, loadVars>>
setLatitude(value) ==
  /\ form' = [form EXCEPT !.latitude = value]
  /\ UNCHANGED <<onAddTreeArg, calcVars, appVars, dashVars, analysisVars, loadVars>>
setLongitude(value) ==
  /\ form' = [form EXCEPT !.longitude = value]
  /\ UNCHANGED <<onAddTreeArg, calcVars, appVars, dashVars, analysisVars, loadVars>>

\* the onChange handlers of the inputs and selects
Type ==
  \/ \E value \in FormSpecies : setSpecies(value)
  \/ \E value \in FormDbh : setDbh(value)
  \/ \E value \in FormHeight : setHeight(value)
  \/ \E value \in FormCondition : setCondition(value)
  \/ \E value \in FormProximity : setProximityToBuilding(value)
  \/ \E value \in FormLatitude : setLatitude(value)
  \/ \E value \in FormLongitude : setLongitude(value)

\* getCurrentLocation, run by the effect while latitude and longitude are
\* both empty: the device reports a position or the request fails
getCurrentLocation ==
  /\ form.latitude = <<>>
  /\ form.longitude = <<>>
  /\ \/ form' = [form EXCEPT !.latitude = DeviceLatitude,
                             !.longitude = DeviceLongitude]
     \/ form' = [form EXCEPT !.error = "Tidak dapat mengambil lokasi Anda."]
  /\ UNCHANGED <<onAddTreeArg, calcVars, appVars, dashVars, analysisVars, loadVars>>

\* handleFileChange with a file chosen and an analysis that returns null:
\* the error is cleared and the compressed photo is kept.  The fields a
\* successful analysis fills are set through the setters above.
handleFileChange ==
  /\ form' = [form EXCEPT !.error = "null", !.photo = "data:image/jpeg"]
  /\ UNCHANGED <<onAddTreeArg, calcVars, appVars, dashVars, analysisVars, loadVars>>

\* !value of a string state: null and the empty string are falsy
Falsy(value) == value \in {"null", ""}

\* !value of the string of a numeric input field
FalsyChars(value) == value = <<>>

treeData ==
  [species |-> form.species,
   dbh |-> parseFloat(form.dbh),
   height |-> parseFloat(form.height),
   condition |-> form.condition,
   proximityToBuilding |-> form.proximityToBuilding,
   notes |-> form.notes,
   photo |-> form.photo,
   latitude |-> parseFloat(form.latitude),
   longitude |-> parseFloat(form.longitude),
   inventoryDate |-> "date"]

handleSubmit_NoPhotoCheck ==
  IF \/ Falsy(form.species) \/ FalsyChars(form.dbh)
     \/ FalsyChars(form.height) \/ FalsyChars(form.latitude)
     \/ FalsyChars(form.longitude)
  THEN /\ form' = [form EXCEPT !.error = "Harap isi semua kolom yang wajib diisi dan unggah foto."]
       /\ UNCHANGED <<onAddTreeArg, calcVars, appVars, dashVars, analysisVars, loadVars>>
  ELSE /\ form' = initialForm
       /\ onAddTreeArg' = treeData
       /\ UNCHANGED <<calcVars, appVars, dashVars, analysisVars, loadVars>>

handleSubmit ==
  IF \/ Falsy(form.photo) \/ Falsy(form.species) \/ FalsyChars(form.dbh)
     \/ FalsyChars(form.height) \/ FalsyChars(form.latitude)
     \/ FalsyChars(form.longitude)
  THEN /\ form' = [form EXCEPT !.error = "Harap isi semua kolom yang wajib diisi dan unggah foto."]
       /\ UNCHANGED <<onAddTreeArg, calcVars, appVars, dashVars, analysisVars, loadVars>>
  ELSE /\ form' = initialForm
       /\ onAddTreeArg' = treeData
       /\ UNCHANGED <<calcVars, appVars, dashVars, analysisVars, loadVars>>

FormInit ==
  CalcIdle /\ AppIdle /\ FormIdle /\ DashIdle /\ AnalysisIdle /\ LoadIdle

FormNext == Type \/ getCurrentLocation \/ handleFileChange \/ handleSubmit

FormSpec == FormInit /\ [][FormNext]_vars

\* --------------------------------------------------------- dashboard
\* The numbers of the dashboard are binary64.
\* A finite non-negative double is s * 2^e with 2^52 <= s < 2^53, or zero.
\* s is held in limbs of 14 bits, least significant first; the working
\* width of an exact sum or product is WideLimbs limbs.
Radix == 16384
LimbBits == 14
SigLimbs == 4
WideLimbs == 8
Precision == 53
Pow2 == [k \in 0..LimbBits |-> 2^k] @@ <<>>

\* the tuple of a function on 1..WideLimbs
Wide(limbs) == SubSeq(limbs, 1, WideLimbs)

WideZero == Wide([i \in 1..WideLimbs |-> 0])
WideOne == Wide([i \in 1..WideLimbs |-> IF i = 1 THEN 1 ELSE 0])
Widen(sig) == Wide([i \in 1..WideLimbs |-> IF i <= SigLimbs THEN sig[i] ELSE 0])
Narrow(wide) == SubSeq(wide, 1, SigLimbs)
Limb(wide, i) == IF i >= 1 /\ i <= WideLimbs THEN wide[i] ELSE 0

ShiftLeft(wide, bits) ==
  LET q == bits \div LimbBits
      r == bits % LimbBits
  IN  Wide([i \in 1..WideLimbs |->
              ((Limb(wide, i - q) * Pow2[r]) % Radix)
              + ((Limb(wide, i - q - 1) * Pow2[r]) \div Radix)])

ShiftRight(wide, bits) ==
  LET q == bits \div LimbBits
      r == bits % LimbBits
  IN  Wide([i \in 1..WideLimbs |->
              (Limb(wide, i + q) \div Pow2[r])
              + ((Limb(wide, i + q + 1) % Pow2[r]) * Pow2[LimbBits - r])])

AddWide(wide, other) ==
  LET carry[i \in 0..WideLimbs] ==
        IF i = 0 THEN 0
        ELSE (wide[i] + other[i] + carry[i - 1]) \div Radix
  IN  Wide([i \in 1..WideLimbs |->
              (wide[i] + other[i] + carry[i - 1]) % Radix])

\* wide * k for a small natural k
TimesSmall(wide, k) ==
  LET carry[i \in 0..WideLimbs] ==
        IF i = 0 THEN 0 ELSE (wide[i] * k + carry[i - 1]) \div Radix
  IN  Wide([i \in 1..WideLimbs |-> (wide[i] * k + carry[i - 1]) % Radix])

\* the remainder left above limb i in the long division of wide by a small
\* natural k, from the top limb down
DivSmallRest(wide, k, i) ==
  LET rest[j \in 1..(WideLimbs + 1)] ==
        IF j = WideLimbs + 1 THEN 0
        ELSE (rest[j + 1] * Radix + wide[j]) % k
  IN  rest[i]
DivSmall(wide, k) ==
  Wide([i \in 1..WideLimbs |->
          (DivSmallRest(wide, k, i + 1) * Radix + wide[i]) \div k])

\* the number of bits of wide: 0 for zero
BitLength(wide) ==
  IF wide = WideZero THEN 0
  ELSE LET top == CHOOSE i \in 1..WideLimbs :
                    wide[i] # 0 /\ \A j \in (i + 1)..WideLimbs : wide[j] = 0
           width == CHOOSE k \in 1..LimbBits :
                      Pow2[k - 1] <= wide[top] /\ wide[top] < Pow2[k]
       IN  (top - 1) * LimbBits + width

\* bit number pos of wide, bit 0 the lowest
Bit(wide, pos) == (wide[pos \div LimbBits + 1] \div Pow2[pos % LimbBits]) % 2

\* wide with drop > 0 bits cut off, rounded to nearest, ties to even; sticky
\* says that a non-zero amount lies below wide's last bit
CutRounded(wide, drop, sticky) ==
  LET kept == ShiftRight(wide, drop)
      half == Bit(wide, drop - 1) = 1
      below == sticky \/ ShiftLeft(ShiftRight(wide, drop - 1), drop - 1) # wide
  IN  IF half /\ (below \/ Bit(kept, 0) = 1) THEN AddWide(kept, WideOne)
      ELSE kept

\* a cut that rounded up to 2^Precision is renormalized
Normalized(wide, exponent) ==
  IF BitLength(wide) > Precision
  THEN [e |-> exponent + 1, s |-> Narrow(ShiftRight(wide, 1))]
  ELSE [e |-> exponent, s |-> Narrow(wide)]

\* the double closest to wide * 2^exponent (plus the sticky amount)
RoundNearestEven(wide, exponent, sticky) ==
  LET drop == BitLength(wide) - Precision
  IN  IF drop <= 0 THEN [e |-> exponent, s |-> Narrow(wide)]
      ELSE Normalized(CutRounded(wide, drop, sticky), exponent + drop)

DoubleZero == [e |-> 0, s |-> <<0, 0, 0, 0>>]
IsDoubleZero(x) == x.s = <<0, 0, 0, 0>>

\* x + y of JavaScript for two such numbers
FAdd(x, y) ==
  IF IsDoubleZero(x) THEN y
  ELSE IF IsDoubleZero(y) THEN x
  ELSE LET hi == IF x.e >= y.e THEN x ELSE y
           lo == IF x.e >= y.e THEN y ELSE x
           gap == hi.e - lo.e
       IN  IF gap > Precision + 1 THEN hi
           ELSE RoundNearestEven(
                  AddWide(ShiftLeft(Widen(hi.s), gap), Widen(lo.s)),
                  lo.e, FALSE)

\* x > 0 of JavaScript
Positive(x) == ~IsDoubleZero(x)

toFixed2_Truncated(x) ==
  IF IsDoubleZero(x) \/ x.e < 0 - 100 THEN WideZero
  ELSE ShiftRight(TimesSmall(Widen(x.s), 100), 0 - x.e)

\* the integer n of x.toFixed(2): n / 100 is the two-decimal number closest
\* to x, the larger one on a tie
toFixed2(x) ==
  IF IsDoubleZero(x) \/ x.e < 0 - 100 THEN WideZero
  ELSE LET scaled == TimesSmall(Widen(x.s), 100)
           bits == 0 - x.e
       IN  ShiftRight(AddWide(scaled, ShiftLeft(WideOne, bits - 1)), bits)

\* parseFloat of the text of n / 100: the double closest to n / 100
ParseBits == 70
parseFloat2(n) ==
  IF n = WideZero THEN DoubleZero
  ELSE RoundNearestEven(DivSmall(ShiftLeft(n, ParseBits), 100),
                        0 - ParseBits,
                        DivSmallRest(ShiftLeft(n, ParseBits), 100, 1) # 0)

\* ---- the records the dashboard is rendered with: TreeData as handleAddTree
\* builds them, with the fields the summary reads
MaxDashTrees == 3

\* species Jati, dbh 50, height 25, Healthy, proximity Near:
\* co2Sequestrated 3380.909172753273, annualMonetaryValue.total 4037607.544703717
TreeJati50 ==
  [species |-> "Jati",
   condition |-> "Healthy",
   carbon |-> [co2Sequestrated |->
                 [e |-> 0 - 41, s |-> <<4978, 15453, 7447, 1690>>]],
   ecosystemServices |->
     [stormwaterInterceptedLiters |->
        [e |-> 0 - 38, s |-> <<8778, 15663, 1924, 1425>>],
      airPollutionRemovedGrams |->
        [e |-> 0 - 45, s |-> <<13732, 4692, 2053, 1520>>],
      annualMonetaryValue |->
        [total |-> [e |-> 0 - 31, s |-> <<6645, 5859, 7996, 1971>>],
         carbon |-> [e |-> 0 - 31, s |-> <<14641, 11560, 10938, 1320>>],
         stormwater |-> [e |-> 0 - 33, s |-> <<8778, 15663, 1924, 1425>>],
         airQuality |-> [e |-> 0 - 35, s |-> <<781, 9962, 2566, 1900>>],
         energy |-> [e |-> 0 - 34, s |-> <<0, 0, 4096, 1406>>]]]]

\* species Pinus, dbh 30, height 15, Damaged, proximity Far:
\* co2Sequestrated 757.6355853605971, annualMonetaryValue.total 994019.0424723804
TreePinus30 ==
  [species |-> "Pinus",
   condition |-> "Damaged",
   carbon |-> [co2Sequestrated |->
                 [e |-> 0 - 43, s |-> <<3238, 14108, 4442, 1515>>]],
   ecosystemServices |->
     [stormwaterInterceptedLiters |->
        [e |-> 0 - 39, s |-> <<9747, 9188, 7483, 1136>>],
      airPollutionRemovedGrams |->
        [e |-> 0 - 46, s |-> <<6028, 6524, 3613, 1212>>],
      annualMonetaryValue |->
        [total |-> [e |-> 0 - 33, s |-> <<12442, 5883, 7265, 1941>>],
         carbon |-> [e |-> 0 - 33, s |-> <<482, 16142, 13198, 1183>>],
         stormwater |-> [e |-> 0 - 34, s |-> <<9747, 9188, 7483, 1136>>],
         airQuality |-> [e |-> 0 - 36, s |-> <<7535, 12251, 4516, 1515>>],
         energy |-> [e |-> 0, s |-> <<0, 0, 0, 0>>]]]]

\* species Jati, dbh 40, height 20, Dead, proximity None:
\* co2Sequestrated 1759.0613467979433, annualMonetaryValue.total 2058309.5727028113
TreeJati40 ==
  [species |-> "Jati",
   condition |-> "Dead",
   carbon |-> [co2Sequestrated |->
                 [e |-> 0 - 42, s |-> <<11142, 1735, 1005, 1759>>]],
   ecosystemServices |->
     [stormwaterInterceptedLiters |->
        [e |-> 0 - 39, s |-> <<13390, 12659, 6615, 1907>>],
      airPollutionRemovedGrams |->
        [e |-> 0 - 46, s |-> <<15374, 5857, 9241, 2034>>],
      annualMonetaryValue |->
        [total |-> [e |-> 0 - 32, s |-> <<9925, 2674, 1113, 2010>>],
         carbon |-> [e |-> 0 - 32, s |-> <<1, 3916, 4369, 1374>>],
         stormwater |-> [e |-> 0 - 34, s |-> <<13390, 12659, 6615, 1907>>],
         airQuality |-> [e |-> 0 - 35, s |-> <<3465, 13901, 9871, 1271>>],
         energy |-> [e |-> 0, s |-> <<0, 0, 0, 0>>]]]]

\* species jati, dbh 0, height 10, Healthy, proximity None:
\* co2Sequestrated 0.0, annualMonetaryValue.total 0.0
TreeZero ==
  [species |-> "jati",
   condition |-> "Healthy",
   carbon |-> [co2Sequestrated |->
                 [e |-> 0, s |-> <<0, 0, 0, 0>>]],
   ecosystemServices |->
     [stormwaterInterceptedLiters |->
        [e |-> 0, s |-> <<0, 0, 0, 0>>],
      airPollutionRemovedGrams |->
        [e |-> 0, s |-> <<0, 0, 0, 0>>],
      annualMonetaryValue |->
        [total |-> [e |-> 0, s |-> <<0, 0, 0, 0>>],
         carbon |-> [e |-> 0, s |-> <<0, 0, 0, 0>>],
         stormwater |-> [e |-> 0, s |-> <<0, 0, 0, 0>>],
         airQuality |-> [e |-> 0, s |-> <<0, 0, 0, 0>>],
         energy |-> [e |-> 0, s |-> <<0, 0, 0, 0>>]]]]

\* species Pinus, dbh 0.1, height 0.1, Damaged, proximity Near:
\* co2Sequestrated 8.322515387301416e-05, annualMonetaryValue.total 160413.52078645435
TreeSapling ==
  [species |-> "Pinus",
   condition |-> "Damaged",
   carbon |-> [co2Sequestrated |->
                 [e |-> 0 - 66, s |-> <<5878, 1666, 4692, 1396>>]],
   ecosystemServices |->
     [stormwaterInterceptedLiters |->
        [e |-> 0 - 54, s |-> <<7817, 3146, 12223, 1294>>],
      airPollutionRemovedGrams |->
        [e |-> 0 - 61, s |-> <<15984, 2263, 1023, 1381>>],
      annualMonetaryValue |->
        [total |-> [e |-> 0 - 35, s |-> <<5805, 10824, 3778, 1253>>],
         carbon |-> [e |-> 0 - 57, s |-> <<8883, 7824, 2414, 1109>>],
         stormwater |-> [e |-> 0 - 49, s |-> <<7817, 3146, 12223, 1294>>],
         airQuality |-> [e |-> 0 - 51, s |-> <<15884, 15117, 5374, 1726>>],
         energy |-> [e |-> 0 - 35, s |-> <<0, 0, 2048, 1253>>]]]]

\* a record loaded from storage: species Jati, Healthy, co2Sequestrated 12.34
\* and services of no value
TreeStored ==
  [species |-> "Jati",
   condition |-> "Healthy",
   carbon |-> [co2Sequestrated |->
                 [e |-> 0 - 49, s |-> <<1966, 11141, 8519, 1579>>]],
   ecosystemServices |->
     [stormwaterInterceptedLiters |-> DoubleZero,
      airPollutionRemovedGrams |-> DoubleZero,
      annualMonetaryValue |->
        [total |-> DoubleZero,
         carbon |-> DoubleZero,
         stormwater |-> DoubleZero,
         airQuality |-> DoubleZero,
         energy |-> DoubleZero]]]

TreeRecords ==
  {TreeJati50, TreePinus30, TreeJati40, TreeZero, TreeSapling, TreeStored}

\* ---- stats
\* values.reduce((acc, value) => acc + value, 0)
reduce(values) ==
  LET acc[i \in 0..Len(values)] ==
        IF i = 0 THEN DoubleZero ELSE FAdd(acc[i - 1], values[i])
  IN  acc[Len(values)]

\* trees.reduce((acc, tree) => acc + tree.carbon.co2Sequestrated, 0)
totalCarbon(collection) ==
  reduce([i \in DOMAIN collection |-> collection[i].carbon.co2Sequestrated])

totalStormwater(collection) ==
  reduce([i \in DOMAIN collection |->
            collection[i].ecosystemServices.stormwaterInterceptedLiters])

totalPollution_Stormwater(collection) ==
  reduce([i \in DOMAIN collection |->
            collection[i].ecosystemServices.stormwaterInterceptedLiters])

totalPollution(collection) ==
  reduce([i \in DOMAIN collection |->
            collection[i].ecosystemServices.airPollutionRemovedGrams])

totalMonetaryValue(collection) ==
  reduce([i \in DOMAIN collection |->
            collection[i].ecosystemServices.annualMonetaryValue.total])

totalValueCarbon(collection) ==
  reduce([i \in DOMAIN collection |->
            collection[i].ecosystemServices.annualMonetaryValue.carbon])

totalValueStormwater(collection) ==
  reduce([i \in DOMAIN collection |->
            collection[i].ecosystemServices.annualMonetaryValue.stormwater])

totalValueAirQuality(collection) ==
  reduce([i \in DOMAIN collection |->
            collection[i].ecosystemServices.annualMonetaryValue.airQuality])

totalValueEnergy(collection) ==
  reduce([i \in DOMAIN collection |->
            collection[i].ecosystemServices.annualMonetaryValue.energy])

\* speciesCount: for every species of the collection the number of its records
speciesCount(collection) ==
  [name \in {collection[i].species : i \in DOMAIN collection} |->
     Cardinality({i \in DOMAIN collection : collection[i].species = name})]

\* Object.entries(speciesCount) mapped to {name, value}: the keys come in the
\* order in which the reduce created them, the order of first occurrence
speciesEntries(collection) ==
  LET firsts == {i \in DOMAIN collection :
                   \A j \in 1..(i - 1) :
                     collection[j].species # collection[i].species}
  IN  [k \in 1..Cardinality(firsts) |->
         LET i == CHOOSE i \in firsts :
                    Cardinality({j \in firsts : j < i}) = k - 1
         IN  [name |-> collection[i].species,
              value |-> speciesCount(collection)[collection[i].species]]]

\* the place of entry k after the sort
sortedPlace_Ascending(entries, k) ==
  1 + Cardinality({j \in DOMAIN entries :
                     \/ entries[j].value < entries[k].value
                     \/ entries[j].value = entries[k].value /\ j < k})

\* the place of entry k after .sort((a, b) => b.value - a.value), a stable
\* sort: behind the entries of greater value and the earlier ones of equal
\* value
sortedPlace(entries, k) ==
  1 + Cardinality({j \in DOMAIN entries :
                     \/ entries[j].value > entries[k].value
                     \/ entries[j].value = entries[k].value /\ j < k})

speciesData(collection) ==
  LET entries == speciesEntries(collection)
  IN  [place \in 1..Len(entries) |->
         entries[CHOOSE k \in DOMAIN entries :
                   sortedPlace(entries, k) = place]]

monetaryBreakdown_Unfiltered(collection) ==
  <<[name |-> "Penyimpanan Karbon", value |-> totalValueCarbon(collection)],
    [name |-> "Manajemen Air Hujan",
     value |-> totalValueStormwater(collection)],
    [name |-> "Kualitas Udara", value |-> totalValueAirQuality(collection)],
    [name |-> "Penghematan Energi", value |-> totalValueEnergy(collection)]>>

monetaryBreakdown(collection) ==
  SelectSeq(
    <<[name |-> "Penyimpanan Karbon", value |-> totalValueCarbon(collection)],
      [name |-> "Manajemen Air Hujan",
       value |-> totalValueStormwater(collection)],
      [name |-> "Kualitas Udara", value |-> totalValueAirQuality(collection)],
      [name |-> "Penghematan Energi",
       value |-> totalValueEnergy(collection)]>>,
    LAMBDA item : Positive(item.value))

\* carbonByCondition: for every condition of the collection the sum of
\* co2Sequestrated over its records, added in the order of the collection
carbonByCondition(collection) ==
  [condition \in {collection[i].condition : i \in DOMAIN collection} |->
     totalCarbon(SelectSeq(collection,
                           LAMBDA tree : tree.condition = condition))]

conditionOrder == <<"Healthy", "Damaged", "Dead">>

carbonByConditionData_Unrounded(collection) ==
  LET sums == carbonByCondition(collection)
  IN  SelectSeq(
        [k \in 1..Len(conditionOrder) |->
           [name |-> conditionOrder[k],
            co2 |-> IF conditionOrder[k] \in DOMAIN sums
                    THEN sums[conditionOrder[k]]
                    ELSE DoubleZero]],
        LAMBDA item : Positive(item.co2))

carbonByConditionData(collection) ==
  LET sums == carbonByCondition(collection)
  IN  SelectSeq(
        [k \in 1..Len(conditionOrder) |->
           [name |-> conditionOrder[k],
            co2 |-> IF /\ conditionOrder[k] \in DOMAIN sums
                       /\ Positive(sums[conditionOrder[k]])
                    THEN parseFloat2(toFixed2(sums[conditionOrder[k]]))
                    ELSE DoubleZero]],
        LAMBDA item : Positive(item.co2))

computeStats_ZeroedBreakdown(collection) ==
  [totalTrees |-> Len(collection),
   totalCarbon |-> totalCarbon(collection),
   totalStormwater |-> totalStormwater(collection),
   totalPollution |-> totalPollution(collection),
   totalMonetaryValue |-> totalMonetaryValue(collection),
   speciesData |-> speciesData(collection),
   monetaryBreakdown |-> monetaryBreakdown_Unfiltered(collection),
   carbonByConditionData |-> carbonByConditionData(collection)]

\* the summary useMemo computes for a collection
computeStats(collection) ==
  IF Len(collection) = 0
  THEN [totalTrees |-> 0,
        totalCarbon |-> DoubleZero,
        totalStormwater |-> DoubleZero,
        totalPollution |-> DoubleZero,
        totalMonetaryValue |-> DoubleZero,
        speciesData |-> <<>>,
        monetaryBreakdown |-> <<>>,
        carbonByConditionData |-> <<>>]
  ELSE [totalTrees |-> Len(collection),
        totalCarbon |-> totalCarbon(collection),
        totalStormwater |-> totalStormwater(collection),
        totalPollution |-> totalPollution(collection),
        totalMonetaryValue |-> totalMonetaryValue(collection),
        speciesData |-> speciesData(collection),
        monetaryBreakdown |-> monetaryBreakdown(collection),
        carbonByConditionData |-> carbonByConditionData(collection)]

\* the first render: the collection the session starts with
DashInit ==
  /\ CalcIdle
  /\ AppIdle
  /\ FormIdle
  /\ AnalysisIdle
  /\ LoadIdle
  /\ dashboardTrees \in {<<>>} \cup {<<tree>> : tree \in TreeRecords}
  /\ stats = computeStats(dashboardTrees)

\* a render after handleAddTree put a record in front
Render(tree) ==
  /\ Len(dashboardTrees) < MaxDashTrees
  /\ dashboardTrees' = <<tree>> \o dashboardTrees
  /\ stats' = computeStats(dashboardTrees')
  /\ UNCHANGED <<calcVars, appVars, formVars, analysisVars, loadVars>>

DashNext == \E tree \in TreeRecords : Render(tree)

DashSpec == DashInit /\ [][DashNext]_vars

\* ----------------------------------------------------- image analysis
MaxAnalyses == 2

\* what the service does with a request: generateContent rejects, or the text
\* of its response is not JSON, or is the JSON null, or is a JSON object
\* (parsed: the object JSON.parse returns)
ServiceResponses ==
  { [outcome |-> "rejected", parsed |-> <<>>],
    [outcome |-> "unparseable", parsed |-> <<>>],
    [outcome |-> "null", parsed |-> <<>>],
    [outcome |-> "object",
     parsed |-> [species |-> "Jati", latitude |-> 0 - 6, longitude |-> 106,
                 condition |-> "Damaged", estimatedDbh |-> 25,
                 estimatedHeight |-> 20, confidence |-> 90]],
    [outcome |-> "object",
     parsed |-> [species |-> "Pinus", latitude |-> 0, longitude |-> 0,
                 condition |-> "healthy", estimatedDbh |-> 0,
                 estimatedHeight |-> 0]],
    [outcome |-> "object",
     parsed |-> [species |-> "Pinus", latitude |-> 0 - 6, longitude |-> 106,
                 condition |-> "Dead", estimatedDbh |-> 25,
                 estimatedHeight |-> 0]],
    [outcome |-> "object",
     parsed |-> [species |-> "Jati", latitude |-> 0 - 6, longitude |-> 106,
                 estimatedDbh |-> 25, estimatedHeight |-> 20]] }

analysisFailedMessage ==
  "Gagal menganalisis gambar dengan AI. Harap periksa kunci API Anda dan coba lagi."

\* the promise of analyzeTreeImage rejected
Thrown == [threw |-> TRUE, value |-> <<>>]

analyzeTreeImage_AlwaysHealthy(response) ==
  IF response.outcome # "object" THEN Thrown
  ELSE [threw |-> FALSE,
        value |->
          [field \in DOMAIN response.parsed \cup {"condition"} |->
             IF field # "condition" THEN response.parsed[field]
             ELSE "Healthy"]]

\* analyzeTreeImage from the response of the service on: the await of line
\* 67, JSON.parse and the object returned
analyzeTreeImage(response) ==
  IF response.outcome # "object" THEN Thrown
  ELSE [threw |-> FALSE,
        value |->
          [field \in DOMAIN response.parsed \cup {"condition"} |->
             IF field # "condition" THEN response.parsed[field]
             ELSE IF /\ "condition" \in DOMAIN response.parsed
                     /\ response.parsed.condition \in TreeCondition
                  THEN response.parsed.condition
                  ELSE "Healthy"]]

\* String(n) of an integer n with |n| < 1000
StringOfNat(n) ==
  IF n < 10 THEN <<Digits[n + 1]>>
  ELSE IF n < 100 THEN <<Digits[(n \div 10) + 1], Digits[(n % 10) + 1]>>
  ELSE <<Digits[(n \div 100) + 1], Digits[((n \div 10) % 10) + 1],
         Digits[(n % 10) + 1]>>
StringOf(n) == IF n < 0 THEN <<"-">> \o StringOfNat(0 - n) ELSE StringOfNat(n)

\* handleFileChange up to its await of onAnalyzeImage, and in it
\* handleImageAnalysis up to its await of analyzeTreeImage; the service will
\* answer with response
handleImageAnalysis(response) ==
  /\ Len(analyses) < MaxAnalyses
  /\ form' = [form EXCEPT !.error = "null", !.photo = "data:image/jpeg"]
  /\ isAnalyzing' = TRUE
  /\ appError' = "null"
  /\ analyses' = Append(analyses, [response |-> response, pending |-> TRUE,
                                   returned |-> <<>>])
  /\ UNCHANGED <<onAddTreeArg, calcVars, appVars, dashVars, loadVars>>

\* what handleImageAnalysis returns: <<>> is null, <<value>> a result
returnedOf(result) == IF result.threw THEN <<>> ELSE <<result.value>>

\* the forms handleFileChange can leave after onAnalyzeImage returned: the
\* fields of the result, and the device's location (or its failure) when the
\* result has no coordinates
formsAfterAnalysis(returned) ==
  IF returned = <<>> THEN {form}
  ELSE LET filled ==
             [form EXCEPT
                !.species = returned[1].species,
                !.condition = returned[1].condition,
                !.dbh = IF returned[1].estimatedDbh > 0
                        THEN StringOf(returned[1].estimatedDbh) ELSE <<>>,
                !.height = IF returned[1].estimatedHeight > 0
                           THEN StringOf(returned[1].estimatedHeight)
                           ELSE <<>>]
       IN  IF returned[1].latitude # 0 /\ returned[1].longitude # 0
           THEN {[filled EXCEPT
                    !.latitude = StringOf(returned[1].latitude),
                    !.longitude = StringOf(returned[1].longitude)]}
           ELSE {[filled EXCEPT !.latitude = DeviceLatitude,
                                !.longitude = DeviceLongitude],
                 [filled EXCEPT
                    !.error = "Tidak dapat mengambil lokasi Anda."]}

handleImageAnalysisResume_SuccessOnly(k) ==
  /\ analyses[k].pending
  /\ analyses' =
       [analyses EXCEPT
          ![k] = [response |-> @.response, pending |-> FALSE,
                  returned |-> returnedOf(analyzeTreeImage(@.response))]]
  /\ appError' = IF analyzeTreeImage(analyses[k].response).threw
                 THEN analysisFailedMessage
                 ELSE appError
  /\ isAnalyzing' = IF analyzeTreeImage(analyses[k].response).threw
                    THEN isAnalyzing ELSE FALSE
  /\ form' \in formsAfterAnalysis(analyses'[k].returned)
  /\ UNCHANGED <<onAddTreeArg, calcVars, appVars, dashVars, loadVars>>

\* call k of handleImageAnalysis from its await on: return or catch, then
\* finally; and handleFileChange from its await on
handleImageAnalysisResume(k) ==
  /\ analyses[k].pending
  /\ analyses' =
       [analyses EXCEPT
          ![k] = [response |-> @.response, pending |-> FALSE,
                  returned |-> returnedOf(analyzeTreeImage(@.response))]]
  /\ appError' = IF analyzeTreeImage(analyses[k].response).threw
                 THEN analysisFailedMessage
                 ELSE appError
  /\ isAnalyzing' = FALSE
  /\ form' \in formsAfterAnalysis(analyses'[k].returned)
  /\ UNCHANGED <<onAddTreeArg, calcVars, appVars, dashVars, loadVars>>

StartAnalysis == \E response \in ServiceResponses : handleImageAnalysis(response)
ResumeAnalysis == \E k \in DOMAIN analyses : handleImageAnalysisResume(k)

AnalysisInit ==
  CalcIdle /\ AppIdle /\ FormIdle /\ DashIdle /\ AnalysisIdle /\ LoadIdle

AnalysisNext == StartAnalysis \/ ResumeAnalysis

AnalysisSpec == AnalysisInit /\ [][AnalysisNext]_vars

\* ------------------------------------------------------------------------
\* Session start: the initializer of the trees state
\* ------------------------------------------------------------------------

\* the sample collection of the constants module
initialTrees == CHOOSE collection \in SessionStartCollections : collection # <<>>

\* the arrays an earlier session can have stored: a text that fits holds at
\* most StorageQuota records
StoredCollections ==
  UNION { [1..n -> { NewTrees[m, 0] : m \in Measurements }] :
            n \in 0..StorageQuota }

\* JSON values that are not arrays, and texts JSON.parse rejects
OtherJson == {"object", "number", "string", "true", "null"}
NotJson == {"truncated", "garbage"}

StoredTexts ==
  {NoItem, StoredText("empty", <<>>), StoredText("denied", <<>>)}
  \cup { StoredText("array", JSON_stringify(collection)) :
           collection \in StoredCollections }
  \cup { StoredText(json, <<>>) : json \in OtherJson \cup NotJson }

\* localStorage.getItem('treeInventoryData'): a text, null, or an exception
getItemThrows(item) == item.kind = "denied"
\* if (savedTreesJSON): null and the empty text are falsy
Truthy(item) == item.kind \notin {"absent", "empty"}
JSON_parseThrows(item) == item.kind \in NotJson
Array_isArray(item) == item.kind = "array"
\* localStorage.removeItem in the catch block: it throws as getItem does
removeItemThrows(item) == item.kind = "denied"

\* useState(() => { try { ... } catch { ... } return initialTrees })
loadInitializer ==
  /\ loadOutcome = "pending"
  /\ IF getItemThrows(savedTreesJSON)
       \* the catch block runs, and its removeItem throws out of the
       \* initializer: no collection
       THEN /\ loadOutcome' = IF removeItemThrows(savedTreesJSON)
                               THEN "threw" ELSE "loaded"
            /\ savedTreesJSON' = savedTreesJSON
            /\ trees' = IF removeItemThrows(savedTreesJSON)
                         THEN trees ELSE initialTrees
       ELSE IF Truthy(savedTreesJSON) /\ JSON_parseThrows(savedTreesJSON)
       THEN /\ loadOutcome' = "loaded"
            /\ savedTreesJSON' = NoItem
            /\ trees' = initialTrees
       ELSE IF Truthy(savedTreesJSON) /\ Array_isArray(savedTreesJSON)
       THEN /\ loadOutcome' = "loaded"
            /\ savedTreesJSON' = savedTreesJSON
            /\ trees' = JSON_parse(savedTreesJSON.elements)
       ELSE /\ loadOutcome' = "loaded"
            /\ savedTreesJSON' = savedTreesJSON
            /\ trees' = initialTrees
  /\ UNCHANGED <<view, now, sessionStart, added, treeInventoryData, calcVars,
                 formVars, dashVars, analysisVars>>

LoadInit ==
  /\ CalcIdle
  /\ AppIdle
  /\ FormIdle
  /\ DashIdle
  /\ AnalysisIdle
  /\ savedTreesJSON \in StoredTexts
  /\ loadOutcome = "pending"

LoadNext == loadInitializer

LoadSpec == LoadInit /\ [][LoadNext]_vars

\* ------------------------------------------------------- properties
Reverse(s) == [i \in 1..Len(s) |-> s[Len(s) + 1 - i]]

\* the measurements of a form submitted with the dbh and the proximity of
\* the calculator call
Submitted(height, condition) ==
  [species |-> "Jati", dbh |-> argDbh, height |-> height,
   condition |-> condition, proximityToBuilding |-> argProximity,
   notes |-> "", photo |-> "data:image/jpeg", latitude |-> D(340522, 4),
   longitude |-> D(0 - 1182437, 4), inventoryDate |-> "date"]

TotalIsSum(v) ==
  v.total = Add(Add(Add(v.carbon, v.stormwater), v.airQuality), v.energy)

\* C1: the total of the monetary breakdown calculateEcosystemServices
\* returns is the sum of its carbon, stormwater, airQuality and energy
\* fields, for every dbh and proximity, and so is the total of the
\* breakdown in the record handleAddTree builds from that dbh and proximity.
C1_TotalIsSumOfComponents ==
  \A i \in DOMAIN servicesOut :
    /\ TotalIsSum(servicesOut[i].annualMonetaryValue)
    /\ TotalIsSum(newTree(Submitted(argHeight, "Healthy"), 0)
                    .ecosystemServices.annualMonetaryValue)

C1_Witness ==
  /\ servicesOut # <<>>
  /\ argProximity = "Near"
  /\ Gt0(servicesOut[1].annualMonetaryValue.carbon)
  /\ Gt0(servicesOut[1].annualMonetaryValue.stormwater)
  /\ Gt0(servicesOut[1].annualMonetaryValue.airQuality)
  /\ Gt0(servicesOut[1].annualMonetaryValue.energy)

\* C2: calculateCarbonMetrics returns biomass, carbonStored and
\* co2Sequestrated all 0 when dbh <= 0 or height <= 0.
C2_NonPositiveInputGivesZeroCarbon ==
  \A i \in DOMAIN carbonOut :
    (Leq0(argDbh) \/ Leq0(argHeight)) =>
      /\ carbonOut[i].biomass = D(0, 0)
      /\ carbonOut[i].carbonStored = D(0, 0)
      /\ carbonOut[i].co2Sequestrated = D(0, 0)

C2_Witness ==
  /\ carbonOut # <<>>
  /\ Gt0(argDbh)
  /\ Lt0(argHeight)

\* C3: for dbh > 0 and height > 0 the biomass is positive, carbonStored is
\* biomass * 0.47 and co2Sequestrated is carbonStored * 3.67, which is
\* 0.47 * 3.67 * biomass.
C3_CarbonIsFixedFractionOfBiomass ==
  \A i \in DOMAIN carbonOut :
    (Gt0(argDbh) /\ Gt0(argHeight)) =>
      /\ Gt0(carbonOut[i].biomass)
      /\ carbonOut[i].carbonStored = Mul(carbonOut[i].biomass, D(47, 2))
      /\ carbonOut[i].co2Sequestrated = Mul(carbonOut[i].carbonStored, D(367, 2))
      /\ carbonOut[i].co2Sequestrated =
           Mul(Mul(D(47, 2), D(367, 2)), carbonOut[i].biomass)

C3_Witness ==
  /\ carbonOut # <<>>
  /\ Gt0(argDbh)
  /\ Gt0(argHeight)
  /\ Gt0(carbonOut[1].co2Sequestrated)

\* C4: calculateEcosystemServices returns every field 0, the monetary
\* breakdown included, for every dbh <= 0 and every proximity.
C4_NonPositiveDbhGivesZeroServices ==
  \A i \in DOMAIN servicesOut :
    Leq0(argDbh) =>
      /\ servicesOut[i].stormwaterInterceptedLiters = D(0, 0)
      /\ servicesOut[i].airPollutionRemovedGrams = D(0, 0)
      /\ servicesOut[i].energySavingsIDR = D(0, 0)
      /\ servicesOut[i].annualMonetaryValue.total = D(0, 0)
      /\ servicesOut[i].annualMonetaryValue.carbon = D(0, 0)
      /\ servicesOut[i].annualMonetaryValue.stormwater = D(0, 0)
      /\ servicesOut[i].annualMonetaryValue.airQuality = D(0, 0)
      /\ servicesOut[i].annualMonetaryValue.energy = D(0, 0)

C4_Witness ==
  /\ servicesOut # <<>>
  /\ argDbh = D(0, 0)
  /\ argProximity = "Near"

\* C5: with proximity Far or None the energy savings and the energy field
\* of the monetary breakdown are 0 for every dbh; the energy savings are
\* nonzero only with proximity Near.
C5_EnergySavingsOnlyWhenNear ==
  \A i \in DOMAIN servicesOut :
    /\ argProximity \in {"Far", "None"} =>
         /\ servicesOut[i].energySavingsIDR = D(0, 0)
         /\ servicesOut[i].annualMonetaryValue.energy = D(0, 0)
    /\ servicesOut[i].energySavingsIDR # D(0, 0) => argProximity = "Near"

C5_Witness ==
  /\ servicesOut # <<>>
  /\ argProximity = "Far"
  /\ Gt0(argDbh)

\* C6: with proximity Near and dbh > 0 the energy savings are
\* (10 + 0.25 * dbh) * 16000; a tree of dbh 50 gets 360000.
C6_EnergySavingsNearFormula ==
  \A i \in DOMAIN servicesOut :
    /\ (argProximity = "Near" /\ Gt0(argDbh)) =>
         servicesOut[i].energySavingsIDR =
           Mul(Add(D(10, 0), Mul(D(25, 2), argDbh)), D(16000, 0))
    /\ (argProximity = "Near" /\ argDbh = D(50, 0)) =>
         servicesOut[i].energySavingsIDR = D(360000, 0)

C6_Witness ==
  /\ servicesOut # <<>>
  /\ argProximity = "Near"
  /\ argDbh = D(50, 0)

\* C7: for dbh > 0 the carbon field of the monetary breakdown is the
\* co2Sequestrated of calculateCarbonMetrics(dbh, dbh * 0.5) times
\* 0.05 * 16000; and the records handleAddTree builds from one dbh and
\* proximity carry the same ecosystemServices whatever height and
\* condition were recorded.
C7_CarbonValueFromDbhAlone ==
  \A i \in DOMAIN servicesOut :
    /\ Gt0(argDbh) =>
         servicesOut[i].annualMonetaryValue.carbon =
           Mul(calculateCarbonMetrics(argDbh, Mul(argDbh, D(5, 1))).co2Sequestrated,
               Mul(D(5, 2), D(16000, 0)))
    /\ \A k \in CalcHeight, c \in AppCondition :
         newTree(Submitted(D(k, 1), c), 0).ecosystemServices = servicesOut[i]

C7_Witness ==
  /\ servicesOut # <<>>
  /\ Gt0(argDbh)
  /\ Gt0(argHeight)
  /\ argHeight # Mul(argDbh, D(5, 1))
  /\ Gt0(servicesOut[1].annualMonetaryValue.carbon)

\* C8: for dbh > 0 the stormwater field is the intercepted liters times
\* 0.002 * 16000, the airQuality field is the removed grams times
\* 0.08 * 16000, and the energy field is energySavingsIDR.
C8_MonetaryValuesFromQuantities ==
  \A i \in DOMAIN servicesOut :
    Gt0(argDbh) =>
      /\ servicesOut[i].annualMonetaryValue.stormwater =
           Mul(servicesOut[i].stormwaterInterceptedLiters,
               Mul(D(2, 3), D(16000, 0)))
      /\ servicesOut[i].annualMonetaryValue.airQuality =
           Mul(servicesOut[i].airPollutionRemovedGrams,
               Mul(D(8, 2), D(16000, 0)))
      /\ servicesOut[i].annualMonetaryValue.energy =
           servicesOut[i].energySavingsIDR

C8_Witness ==
  /\ servicesOut # <<>>
  /\ argProximity = "Near"
  /\ Gt0(servicesOut[1].stormwaterInterceptedLiters)
  /\ Gt0(servicesOut[1].airPollutionRemovedGrams)
  /\ Gt0(servicesOut[1].energySavingsIDR)

\* C9: every record handleAddTree creates has its three carbon fields and
\* its stormwater, air pollution and energy savings quantities >= 0,
\* negative dbh and height included.
C9_RecordQuantitiesNonNegative ==
  \A i \in DOMAIN added :
    /\ Geq0(added[i].carbon.biomass)
    /\ Geq0(added[i].carbon.carbonStored)
    /\ Geq0(added[i].carbon.co2Sequestrated)
    /\ Geq0(added[i].ecosystemServices.stormwaterInterceptedLiters)
    /\ Geq0(added[i].ecosystemServices.airPollutionRemovedGrams)
    /\ Geq0(added[i].ecosystemServices.energySavingsIDR)

C9_Witness ==
  /\ Len(added) = 2
  /\ Lt0(added[1].dbh)
  /\ added[1].proximityToBuilding = "Near"
  /\ Gt0(added[2].dbh)
  /\ Lt0(added[2].height)
  /\ added[1] \in { trees[k] : k \in DOMAIN trees }
  /\ added[2] \in { trees[k] : k \in DOMAIN trees }

\* C10: the collection is the records added in the session, newest first,
\* followed by the records that were present when the session started.
C10_NewestFirst ==
  trees = Reverse(added) \o sessionStart

C10_Witness ==
  /\ Len(added) = 2
  /\ added[1] # added[2]
  /\ sessionStart # <<>>
  /\ trees[1] = added[2]

\* C11: no two records of the collection have the same id, also when two
\* adds happen at the same clock reading.
C11_IdsUnique ==
  \A i, j \in DOMAIN trees : i # j => trees[i].id # trees[j].id

\* the results of the two calculators at the measurements of the form
CarbonMetricsOf ==
  [m \in Measurements |-> calculateCarbonMetrics(m.dbh, m.height)] @@ <<>>

EcosystemServicesOf ==
  [m \in Measurements |->
     calculateEcosystemServices(m.dbh, m.proximityToBuilding)] @@ <<>>

\* C12: the record handleAddTree builds from a measurement has
\* carbon = calculateCarbonMetrics(dbh, height), ecosystemServices =
\* calculateEcosystemServices(dbh, proximityToBuilding), and every field of
\* the measurement unchanged.
C12_RecordBuiltFromMeasurement ==
  [][Len(trees') = Len(trees) + 1 =>
       \A m \in Measurements :
         handleAddTree(m) =>
           /\ trees'[1].carbon = CarbonMetricsOf[m]
           /\ trees'[1].ecosystemServices = EcosystemServicesOf[m]
           /\ \A f \in DOMAIN m : trees'[1][f] = m[f]
           /\ DOMAIN trees'[1] = DOMAIN m \cup {"id", "carbon", "ecosystemServices"}]_vars

C12_Witness ==
  /\ added # <<>>
  /\ trees[1] = added[Len(added)]
  /\ Gt0(trees[1].dbh)
  /\ Gt0(trees[1].height)
  /\ trees[1].proximityToBuilding = "Near"
  /\ Gt0(trees[1].carbon.co2Sequestrated)
  /\ Gt0(trees[1].ecosystemServices.energySavingsIDR)

\* C13: a step leaves the collection as it is or puts one record in front
\* of it, the records already there unchanged and in their order; the
\* collection grows by one record with every add and never shrinks.
C13_RecordsKeptAndOneAddedPerAdd ==
  [][/\ \/ trees' = trees
        \/ /\ Len(trees') = Len(trees) + 1
           /\ Tail(trees') = trees
     /\ Len(trees') - Len(trees) = Len(added') - Len(added)]_vars

C13_Witness ==
  /\ Len(added) = 2
  /\ sessionStart # <<>>
  /\ Len(trees) = 3
  /\ trees[3] = sessionStart[1]
  /\ trees[2] = added[1]

\* a <= b on numbers
Leq(a, b) == Geq0(Add(b, Mul(D(0 - 1, 0), a)))

\* C14: every measurement handleSubmit hands to onAddTree has a non-empty
\* species, dbh > 0, height > 0, a latitude in [-90, 90] and a longitude
\* in [-180, 180].
C14_HandedMeasurementIsValid ==
  onAddTreeArg # <<>> =>
    /\ onAddTreeArg.species # ""
    /\ Gt0(onAddTreeArg.dbh)
    /\ Gt0(onAddTreeArg.height)
    /\ Leq(D(0 - 90, 0), onAddTreeArg.latitude)
    /\ Leq(onAddTreeArg.latitude, D(90, 0))
    /\ Leq(D(0 - 180, 0), onAddTreeArg.longitude)
    /\ Leq(onAddTreeArg.longitude, D(180, 0))

\* C15: the item stored under 'treeInventoryData' is the serialization of
\* the whole current collection, and a session started now loads that
\* collection, the same records in the same order.
C15_CollectionPersistedOnEveryChange ==
  /\ treeInventoryData = <<JSON_stringify(trees)>>
  /\ loadTrees(treeInventoryData, <<>>) = trees

\* C16: the summary of an empty collection has totalTrees, totalCarbon,
\* totalStormwater, totalPollution and totalMonetaryValue 0 and speciesData,
\* monetaryBreakdown and carbonByConditionData empty.
C16_EmptyCollectionSummary ==
  dashboardTrees = <<>> /\ stats # <<>> =>
    /\ stats.totalTrees = 0
    /\ stats.totalCarbon = DoubleZero
    /\ stats.totalStormwater = DoubleZero
    /\ stats.totalPollution = DoubleZero
    /\ stats.totalMonetaryValue = DoubleZero
    /\ stats.speciesData = <<>>
    /\ stats.monetaryBreakdown = <<>>
    /\ stats.carbonByConditionData = <<>>

C16_Witness ==
  /\ dashboardTrees = <<>>
  /\ stats # <<>>
  /\ DOMAIN stats = {"totalTrees", "totalCarbon", "totalStormwater",
                     "totalPollution", "totalMonetaryValue", "speciesData",
                     "monetaryBreakdown", "carbonByConditionData"}

\* the values added one after the other, from the first to the last
LeftSum(values) ==
  LET upTo[i \in 0..Len(values)] ==
        IF i = 0 THEN DoubleZero ELSE FAdd(upTo[i - 1], values[i])
  IN  upTo[Len(values)]

\* the four totals of a collection
TotalsOf(collection) ==
  <<LeftSum([i \in DOMAIN collection |->
               collection[i].carbon.co2Sequestrated]),
    LeftSum([i \in DOMAIN collection |->
               collection[i].ecosystemServices.stormwaterInterceptedLiters]),
    LeftSum([i \in DOMAIN collection |->
               collection[i].ecosystemServices.airPollutionRemovedGrams]),
    LeftSum([i \in DOMAIN collection |->
               collection[i].ecosystemServices.annualMonetaryValue.total])>>

DashCollections == UNION {[1..n -> TreeRecords] : n \in 0..MaxDashTrees}
TotalsTable == [collection \in DashCollections |-> TotalsOf(collection)] @@ <<>>

Permuted(collection, order) ==
  [i \in DOMAIN collection |-> collection[order[i]]]

\* two doubles at most units steps of the last place apart
WithinUlps(x, y, units) ==
  \/ x = y
  \/ /\ x.e = y.e
     /\ \E k \in 1..units :
          \/ AddWide(Widen(x.s), TimesSmall(WideOne, k)) = Widen(y.s)
          \/ AddWide(Widen(y.s), TimesSmall(WideOne, k)) = Widen(x.s)

\* C17 (as amended): for a non-empty collection totalTrees is the number of
\* records and each total is the floating-point sum of its field taken in
\* the order of the collection, starting from 0. totalTrees is the same for
\* every permutation; the four totals of a permutation lie within one unit in
\* the last place per addition of those of the collection, and are the same
\* when only the first two records change places.
C17_TotalsAreSumsInCollectionOrder ==
  dashboardTrees # <<>> =>
    /\ stats.totalTrees = Len(dashboardTrees)
    /\ <<stats.totalCarbon, stats.totalStormwater, stats.totalPollution,
         stats.totalMonetaryValue>> = TotalsTable[dashboardTrees]
    /\ \A order \in Permutations(DOMAIN dashboardTrees) :
         /\ Len(Permuted(dashboardTrees, order)) = stats.totalTrees
         /\ \A k \in 1..4 :
              WithinUlps(TotalsTable[Permuted(dashboardTrees, order)][k],
                         TotalsTable[dashboardTrees][k],
                         Len(dashboardTrees) - 1)
         /\ (\A i \in DOMAIN order : i > 2 => order[i] = i) =>
              TotalsTable[Permuted(dashboardTrees, order)]
                = TotalsTable[dashboardTrees]

\* three records of positive metrics whose totalCarbon depends on their order
C17_Witness ==
  /\ Len(dashboardTrees) = 3
  /\ stats.totalTrees = 3
  /\ Positive(stats.totalCarbon)
  /\ \E order \in Permutations(DOMAIN dashboardTrees) :
       TotalsTable[Permuted(dashboardTrees, order)][1] # stats.totalCarbon

\* C17 (as stated): the totals are the sums over all records and are the
\* same for every permutation of the collection.
C17_TotalsSameForEveryPermutation ==
  dashboardTrees # <<>> =>
    /\ stats.totalTrees = Len(dashboardTrees)
    /\ <<stats.totalCarbon, stats.totalStormwater, stats.totalPollution,
         stats.totalMonetaryValue>> = TotalsTable[dashboardTrees]
    /\ \A order \in Permutations(DOMAIN dashboardTrees) :
         TotalsTable[Permuted(dashboardTrees, order)]
           = <<stats.totalCarbon, stats.totalStormwater, stats.totalPollution,
               stats.totalMonetaryValue>>

\* the species of the records, in the order of the collection
SpeciesOf(collection) == [i \in DOMAIN collection |-> collection[i].species]

\* the sum of the values of the entries
ValueSum(entries) ==
  LET upTo[i \in 0..Len(entries)] ==
        IF i = 0 THEN 0 ELSE upTo[i - 1] + entries[i].value
  IN  upTo[Len(entries)]

BreakdownNames ==
  <<"Penyimpanan Karbon", "Manajemen Air Hujan", "Kualitas Udara",
    "Penghematan Energi">>

\* the sums of the four components of annualMonetaryValue, in that order
BreakdownSums(collection) ==
  <<LeftSum([i \in DOMAIN collection |->
               collection[i].ecosystemServices.annualMonetaryValue.carbon]),
    LeftSum([i \in DOMAIN collection |->
               collection[i].ecosystemServices.annualMonetaryValue.stormwater]),
    LeftSum([i \in DOMAIN collection |->
               collection[i].ecosystemServices.annualMonetaryValue.airQuality]),
    LeftSum([i \in DOMAIN collection |->
               collection[i].ecosystemServices.annualMonetaryValue.energy])>>

BreakdownTable ==
  [collection \in DashCollections |-> BreakdownSums(collection)] @@ <<>>

\* the place of a name in a sequence of distinct names
PlaceIn(names, name) == CHOOSE k \in DOMAIN names : names[k] = name

\* C19: monetaryBreakdown lists the categories carbon, stormwater, air
\* quality and energy in that order, each with the sum of that component of
\* annualMonetaryValue over the collection, and a category is left out if and
\* only if its sum is exactly 0.
C19_MonetaryBreakdownOmitsZeroSums ==
  stats # <<>> =>
    /\ \A k \in DOMAIN BreakdownNames :
         (BreakdownTable[dashboardTrees][k] = DoubleZero)
           <=> (\A i \in DOMAIN stats.monetaryBreakdown :
                  stats.monetaryBreakdown[i].name # BreakdownNames[k])
    /\ \A i \in DOMAIN stats.monetaryBreakdown :
         \E k \in DOMAIN BreakdownNames :
           /\ stats.monetaryBreakdown[i].name = BreakdownNames[k]
           /\ stats.monetaryBreakdown[i].value
                = BreakdownTable[dashboardTrees][k]
    /\ \A i, j \in DOMAIN stats.monetaryBreakdown :
         i < j => PlaceIn(BreakdownNames, stats.monetaryBreakdown[i].name)
                    < PlaceIn(BreakdownNames, stats.monetaryBreakdown[j].name)

\* two records of positive value and no energy saving: three categories
C19_Witness ==
  /\ Len(dashboardTrees) = 2
  /\ BreakdownTable[dashboardTrees][4] = DoubleZero
  /\ Len(stats.monetaryBreakdown) = 3
  /\ stats.monetaryBreakdown[1].name = "Penyimpanan Karbon"
  /\ stats.monetaryBreakdown[3].name = "Kualitas Udara"
  /\ stats.monetaryBreakdown[1].value
       # dashboardTrees[1].ecosystemServices.annualMonetaryValue.carbon

\* the sum of co2Sequestrated over the records of a condition (adding 0 for
\* a record of another condition changes nothing)
ConditionSum(collection, condition) ==
  LeftSum([i \in DOMAIN collection |->
             IF collection[i].condition = condition
             THEN collection[i].carbon.co2Sequestrated
             ELSE DoubleZero])

ConditionTable ==
  [collection \in DashCollections |->
     [k \in DOMAIN conditionOrder |->
        ConditionSum(collection, conditionOrder[k])]] @@ <<>>

\* x >= 0.005: 200 * s is at least 2^(-e)
AtLeastHalfCent(x) == BitLength(TimesSmall(Widen(x.s), 200)) > 0 - x.e

\* C20 (as amended): carbonByConditionData has one entry for each condition
\* whose summed co2Sequestrated, rounded to two decimals, is positive, that is
\* whose sum is at least 0.005, and none for the other conditions; the co2 of
\* an entry is the rounded sum; the entries follow the order Healthy,
\* Damaged, Dead whatever the order of the records.
C20_EntryPerConditionOfRoundedPositiveCarbon ==
  stats # <<>> =>
    /\ \A k \in DOMAIN conditionOrder :
         AtLeastHalfCent(ConditionTable[dashboardTrees][k])
           <=> (\E i \in DOMAIN stats.carbonByConditionData :
                  stats.carbonByConditionData[i].name = conditionOrder[k])
    /\ \A i \in DOMAIN stats.carbonByConditionData :
         \E k \in DOMAIN conditionOrder :
           /\ stats.carbonByConditionData[i].name = conditionOrder[k]
           /\ stats.carbonByConditionData[i].co2
                = parseFloat2(toFixed2(ConditionTable[dashboardTrees][k]))
    /\ \A i, j \in DOMAIN stats.carbonByConditionData :
         i < j =>
           PlaceIn(conditionOrder, stats.carbonByConditionData[i].name)
             < PlaceIn(conditionOrder, stats.carbonByConditionData[j].name)

\* a Dead record in front of a Healthy one, and a Damaged sapling whose co2
\* is positive and below 0.005: the entries are Healthy, Dead
C20_Witness ==
  /\ Len(dashboardTrees) = 3
  /\ dashboardTrees[1].condition = "Dead"
  /\ dashboardTrees[2].condition = "Healthy"
  /\ dashboardTrees[3].condition = "Damaged"
  /\ Positive(ConditionTable[dashboardTrees][2])
  /\ Len(stats.carbonByConditionData) = 2
  /\ stats.carbonByConditionData[1].name = "Healthy"
  /\ stats.carbonByConditionData[2].name = "Dead"

\* C20 (as stated): one entry for each condition whose summed co2Sequestrated
\* is positive, none for a condition whose sum is 0, in the order Healthy,
\* Damaged, Dead.
C20_EntryPerConditionOfPositiveCarbon ==
  stats # <<>> =>
    /\ \A k \in DOMAIN conditionOrder :
         Positive(ConditionTable[dashboardTrees][k])
           <=> (\E i \in DOMAIN stats.carbonByConditionData :
                  stats.carbonByConditionData[i].name = conditionOrder[k])
    /\ \A i, j \in DOMAIN stats.carbonByConditionData :
         i < j =>
           PlaceIn(conditionOrder, stats.carbonByConditionData[i].name)
             < PlaceIn(conditionOrder, stats.carbonByConditionData[j].name)

\* the number of hundredths closest to x, the larger on a tie: the whole
\* part of (200 * x + 1) / 2
Hundredths(x) ==
  IF IsDoubleZero(x) \/ x.e < 0 - 100 THEN WideZero
  ELSE ShiftRight(AddWide(TimesSmall(Widen(x.s), 200),
                          ShiftLeft(WideOne, 0 - x.e)),
                  1 - x.e)

\* 12.34 and 3380.91 as doubles
Double_12_34 == [e |-> 0 - 49, s |-> <<1966, 11141, 8519, 1579>>]
Double_3380_91 == [e |-> 0 - 41, s |-> <<7864, 11796, 7454, 1690>>]

\* C21 (as amended): the co2 of each carbonByConditionData entry is the sum
\* of co2Sequestrated over the records of that condition rounded to two
\* decimals; for a single Healthy tree with co2Sequestrated 12.34 the result
\* is exactly [{Healthy, 12.34}].
C21_Co2IsSumRoundedToTwoDecimals ==
  stats # <<>> =>
    /\ \A i \in DOMAIN stats.carbonByConditionData :
         stats.carbonByConditionData[i].co2
           = parseFloat2(Hundredths(
               ConditionTable[dashboardTrees][
                 PlaceIn(conditionOrder,
                         stats.carbonByConditionData[i].name)]))
    /\ dashboardTrees = <<TreeStored>> =>
         stats.carbonByConditionData
           = <<[name |-> "Healthy", co2 |-> Double_12_34]>>

\* a single Healthy tree of co2Sequestrated 3380.909172753273: its entry has
\* co2 3380.91
C21_Witness ==
  /\ dashboardTrees = <<TreeJati50>>
  /\ stats.carbonByConditionData
       = <<[name |-> "Healthy", co2 |-> Double_3380_91]>>
  /\ stats.carbonByConditionData[1].co2 # stats.totalCarbon

\* C21 (as stated): the co2 of each entry equals the sum of co2Sequestrated
\* over the records of that condition; a single Healthy tree of 12.34 gives
\* [{Healthy, 12.34}].
C21_Co2IsSum ==
  stats # <<>> =>
    /\ \A i \in DOMAIN stats.carbonByConditionData :
         stats.carbonByConditionData[i].co2
           = ConditionTable[dashboardTrees][
               PlaceIn(conditionOrder, stats.carbonByConditionData[i].name)]
    /\ dashboardTrees = <<TreeStored>> =>
         stats.carbonByConditionData
           = <<[name |-> "Healthy", co2 |-> Double_12_34]>>

\* C22: the condition in a result of analyzeTreeImage is always one of
\* Healthy, Damaged, Dead: the service's value when that is a member of the
\* enum, Healthy otherwise; all other fields of the parsed response are
\* passed through unchanged.
C22_ConditionValidated ==
  \A k \in DOMAIN analyses :
    analyses[k].returned # <<>> =>
      /\ DOMAIN analyses[k].returned[1]
           = DOMAIN analyses[k].response.parsed \cup {"condition"}
      /\ analyses[k].returned[1].condition \in {"Healthy", "Damaged", "Dead"}
      /\ \/ /\ "condition" \in DOMAIN analyses[k].response.parsed
            /\ analyses[k].response.parsed.condition
                 \in {"Healthy", "Damaged", "Dead"}
            /\ analyses[k].returned[1].condition
                 = analyses[k].response.parsed.condition
         \/ /\ \/ "condition" \notin DOMAIN analyses[k].response.parsed
               \/ analyses[k].response.parsed.condition
                    \notin {"Healthy", "Damaged", "Dead"}
            /\ analyses[k].returned[1].condition = "Healthy"
      /\ \A field \in DOMAIN analyses[k].response.parsed \ {"condition"} :
           analyses[k].returned[1][field]
             = analyses[k].response.parsed[field]

\* two finished analyses: a response with the condition "healthy", which is
\* no member of the enum, and one with Damaged and a field of its own
C22_Witness ==
  /\ Len(analyses) = 2
  /\ analyses[1].returned # <<>>
  /\ "condition" \in DOMAIN analyses[1].response.parsed
  /\ analyses[1].response.parsed.condition = "healthy"
  /\ analyses[1].returned[1].condition = "Healthy"
  /\ analyses[2].returned # <<>>
  /\ analyses[2].returned[1].condition = "Damaged"
  /\ analyses[2].returned[1].confidence = 90
  /\ form.condition = "Damaged"

\* C23: every call of handleImageAnalysis completes with isAnalyzing false,
\* whether the service succeeds or fails; on failure the call returns null
\* instead of throwing, sets the application error message and leaves the
\* tree collection (and the fields of the form) unchanged.
C23_AnalysisCompletes ==
  [][\A k \in DOMAIN analyses :
       analyses[k].pending /\ ~analyses'[k].pending =>
         /\ isAnalyzing' = FALSE
         /\ analyses[k].response.outcome # "object" =>
              /\ analyses'[k].returned = <<>>
              /\ appError' = analysisFailedMessage
              /\ trees' = trees
              /\ form' = form]_vars

\* a call that failed and one that succeeded, both completed
C23_Witness ==
  /\ Len(analyses) = 2
  /\ ~analyses[1].pending
  /\ analyses[1].response.outcome = "rejected"
  /\ analyses[1].returned = <<>>
  /\ ~analyses[2].pending
  /\ analyses[2].response.outcome = "unparseable"
  /\ appError = analysisFailedMessage
  /\ isAnalyzing = FALSE

\* C24: whenever at least one image analysis started by handleImageAnalysis
\* is still in flight, isAnalyzing is true, also when two analyses overlap
\* and one of them finishes before the other.
C24_AnalyzingWhileInFlight ==
  (\E k \in DOMAIN analyses : analyses[k].pending) => isAnalyzing

\* one of the six required fields of the form is empty
RequiredFieldEmpty ==
  \/ form.photo = "null" \/ form.species = "" \/ form.dbh = <<>>
  \/ form.height = <<>> \/ form.latitude = <<>> \/ form.longitude = <<>>

\* C25: handleSubmit with any of photo, species, dbh, height, latitude or
\* longitude empty sets the form error, does not call onAddTree (the
\* collection and the view are unchanged) and does not reset the fields;
\* with all six present it calls onAddTree once, with the measurement of the
\* form, and then resets every field of the form to its default.
C25_SubmitChecksRequiredFields ==
  [][handleSubmit =>
       /\ RequiredFieldEmpty =>
            /\ form'.error
                 = "Harap isi semua kolom yang wajib diisi dan unggah foto."
            /\ \A field \in DOMAIN form \ {"error"} :
                 form'[field] = form[field]
            /\ onAddTreeArg' = onAddTreeArg
            /\ trees' = trees
            /\ view' = view
       /\ ~RequiredFieldEmpty =>
            /\ onAddTreeArg'
                 = [species |-> form.species,
                    dbh |-> parseFloat(form.dbh),
                    height |-> parseFloat(form.height),
                    condition |-> form.condition,
                    proximityToBuilding |-> form.proximityToBuilding,
                    notes |-> form.notes,
                    photo |-> form.photo,
                    latitude |-> parseFloat(form.latitude),
                    longitude |-> parseFloat(form.longitude),
                    inventoryDate |-> "date"]
            /\ form'
                 = [species |-> "", dbh |-> <<>>, height |-> <<>>,
                    condition |-> "Healthy", proximityToBuilding |-> "None",
                    notes |-> "", photo |-> "null", latitude |-> <<>>,
                    longitude |-> <<>>, error |-> "null"]]_vars

\* a submit that handed a measurement over and reset the form, followed by a
\* submit of the form without its photo, which was refused
C25_Witness ==
  /\ onAddTreeArg # <<>>
  /\ onAddTreeArg.species = "Jati"
  /\ form.photo = "null"
  /\ form.species = "Jati"
  /\ form.dbh # <<>> /\ form.height # <<>>
  /\ form.latitude # <<>> /\ form.longitude # <<>>
  /\ form.error = "Harap isi semua kolom yang wajib diisi dan unggah foto."

\* the initializer returned or threw in this step
Loaded == loadOutcome = "pending" /\ loadOutcome' # "pending"

\* with a storage that can be read, loading does what the four cases say and
\* does not fail
LoadsWhenStorageReadable ==
  [][Loaded /\ ~getItemThrows(savedTreesJSON) =>
       /\ loadOutcome' = "loaded"
       /\ savedTreesJSON.kind = "array" =>
            trees' = JSON_parse(savedTreesJSON.elements)
       /\ savedTreesJSON.kind \in {"absent", "empty"} \cup OtherJson =>
            trees' = initialTrees /\ savedTreesJSON' = savedTreesJSON
       /\ savedTreesJSON.kind \in NotJson =>
            trees' = initialTrees /\ savedTreesJSON' = NoItem]_vars

\* C26: at session start the collection is the stored array when the item
\* holds the text of a JSON array; it is initialTrees when the item is absent
\* or holds another JSON value; when the text cannot be parsed the item is
\* removed and the collection is initialTrees; and loading never fails.
C26_LoadingNeverFails ==
  [][Loaded =>
       /\ loadOutcome' = "loaded"
       /\ savedTreesJSON.kind = "array" =>
            trees' = JSON_parse(savedTreesJSON.elements)
       /\ savedTreesJSON.kind \in {"absent"} \cup OtherJson =>
            trees' = initialTrees /\ savedTreesJSON' = savedTreesJSON
       /\ savedTreesJSON.kind \in NotJson =>
            trees' = initialTrees /\ savedTreesJSON' = NoItem]_vars

====
